---- MODULE Spec2Model ----
(***************************************************************************)
(* State-machine model of DaemonFluidEngine (src/fluid-engine.js).         *)
(*                                                                         *)
(* The engine object is the record `engine`; its fields carry the names    *)
(* of the fields of `this` in the source.  The browser owns two more       *)
(* pieces of state: the viewport (window.innerWidth / innerHeight) and     *)
(* the number of pending requestAnimationFrame callbacks.                  *)
(*                                                                         *)
(* JavaScript runs every handler to completion, so each handler is one     *)
(* action.  Time is counted in milliseconds.  The contents of a texture    *)
(* are abstracted to what the shaders can tell apart: whether the value    *)
(* channels are all zero, and what the alpha channel holds.                *)
(***************************************************************************)
EXTENDS Integers, Sequences, FiniteSets, TLC

VARIABLES engine, viewport, rafPending

vars == <<engine, viewport, rafPending>>

----------------------------------------------------------------------------
(* Program constants *)

DefaultQuality == 2
DefaultSolverIterations == 20
MinSimSize == 32
MaxQuality == 4
MaxDtMs == 20
FpsWindowMs == 500
LowFpsThreshold == 20
LowFpsLimit == 5

\* this.qualityPresets; scale is 1 / scaleDen.  Level q is entry q + 1.
qualityPresets ==
    << [particles |-> 16384,   scaleDen |-> 8, iterations |-> 10],
       [particles |-> 65536,   scaleDen |-> 6, iterations |-> 14],
       [particles |-> 262144,  scaleDen |-> 4, iterations |-> 20],
       [particles |-> 524288,  scaleDen |-> 3, iterations |-> 25],
       [particles |-> 1048576, scaleDen |-> 2, iterations |-> 32] >>

\* the keys of this.programs
AllPrograms ==
    {"advect", "divergence", "pressure", "gradient", "force", "dye",
     "display", "particleRender", "particleUpdate", "particleInit"}

----------------------------------------------------------------------------
(* Bounds and input sets *)

\* how far outside 0..4 a requested quality level may lie
QualityMargin == 1

QualityInputs == (0 - QualityMargin) .. (MaxQuality + QualityMargin)

\* window.innerWidth, window.innerHeight
Viewports == { <<101, 90>>, <<110, 90>> }

\* milliseconds between two frame callbacks: a frame at 20 FPS, and a
\* stall (a hidden tab, a long task) that alone spans a sampling window
FastFrameMs == 50

StallMs == 20000

\* pointer positions in clip space
PointerPositions == { <<0, 0>>, <<1, -1>> }

\* explicit solverIterations values given to updateSettings
IterationInputs == { 3 }

\* outcomes of _initShaders: the programs that compiled and linked (every
\* one, or all but one)
ProgramInputs == {AllPrograms} \cup {AllPrograms \ {p} : p \in AllPrograms}

\* options objects given to the constructor (a missing key is undefined)
OptionsInputs ==
    { [quality |-> q] : q \in QualityInputs }
      \cup { [autoQuality |-> FALSE], [autoQuality |-> TRUE] }
      \cup { [quality |-> q, autoQuality |-> FALSE] : q \in QualityInputs }
      \cup { [solverIterations |-> n] : n \in IterationInputs }

----------------------------------------------------------------------------
(* Arithmetic helpers *)

Max(a, b) == IF a >= b THEN a ELSE b

Min(a, b) == IF a <= b THEN a ELSE b

\* Math.round(num / den) for num >= 0, den > 0: halves round up
Round(num, den) == (2 * num + den) \div (2 * den)

RECURSIVE SqrtUpper(_, _)
\* a power of two h with h * h >= n
SqrtUpper(n, h) == IF h * h >= n THEN h ELSE SqrtUpper(n, 2 * h)

RECURSIVE SqrtSearch(_, _, _)
\* least s in lo..hi with s * s >= n
SqrtSearch(n, lo, hi) ==
    IF lo >= hi THEN lo
    ELSE LET mid == (lo + hi) \div 2
         IN  IF mid * mid >= n THEN SqrtSearch(n, lo, mid)
                               ELSE SqrtSearch(n, mid + 1, hi)

\* Math.ceil(Math.sqrt(n))
CeilSqrt(n) == SqrtSearch(n, 0, SqrtUpper(n, 1))

\* options.key ?? d
Coalesce(options, key, d) ==
    IF key \in DOMAIN options THEN options[key] ELSE d

\* Object.assign(target, s)
ObjectAssign(target, s) ==
    [k \in (DOMAIN target) \cup (DOMAIN s) |->
        IF k \in DOMAIN s THEN s[k] ELSE target[k]]

\* this.qualityPresets[q] is an object (not undefined)
HasPreset(q) == q \in 0 .. (Len(qualityPresets) - 1)

Preset(q) == qualityPresets[q + 1]

----------------------------------------------------------------------------
(* Textures.  A Field is abstracted to one texel class: v says whether the *)
(* value channels (xy of velocity, x of pressure and divergence, rgb of    *)
(* dye) are all zero, a is the alpha channel: "zero", "one", or "scaled"   *)
(* (a former value multiplied by a dissipation factor).                    *)

\* gl.texImage2D(..., null): a new texture is all zeros
FreshTexel == [v |-> "zero", a |-> "zero"]

\* gl.clearColor(0, 0, 0, 1); gl.clear(gl.COLOR_BUFFER_BIT)
ClearedTexel == [v |-> "zero", a |-> "one"]

\* the Fields _initFramebuffers allocates: two of velocity, two of
\* pressure, one of divergence, two of dye
SimFields == 7

\* the Fields _initParticleBuffers allocates
ParticleFields == 2

\* _createRenderTarget
CreateRenderTarget == FreshTexel

\* _createDoubleFBO: Fields 0 and 1
CreateDoubleFBO == [i \in 0 .. 1 |-> CreateRenderTarget]

\* the particle-init shader: vec4(pos, 0.0, 0.0) with pos on the lattice
SeedParticles == [pos |-> "seed", vel |-> "zero"]

\* "zero" exactly when every operand is "zero"
Combine(vs) == IF vs \subseteq {"zero"} THEN "zero" ELSE "data"

\* alpha * dissipation
ScaleAlpha(a) == IF a = "zero" THEN "zero" ELSE "scaled"

----------------------------------------------------------------------------
(* Observation of the last operation.  These fields are not fields of the  *)
(* source object: they record what the last handler did.                   *)
(*   op, arg           the handler and its argument                        *)
(*   passes            the simulation passes it ran, in order              *)
(*   calls             what _animate called, in order                      *)
(*   rebuilds          runs of _initFramebuffers                           *)
(*   particleRebuilds  runs of _initParticleBuffers                        *)
(*   seeds             runs of _initParticles                              *)
(*   thrown            it ended by raising a TypeError                     *)
(*   delta, dt         elapsed time seen by the frame and timestep it used *)
(*   sampled           the frame closed an FPS sampling window             *)
(*   lowStreak         consecutive sampling windows, up to now, that       *)
(*                     measured an FPS below the threshold (kept across    *)
(*                     operations, counted up to LowFpsLimit)              *)
(*   drawn             the programs in use at the draw calls it issued     *)
(*   created, deleted  the Fields it allocated with _createRenderTarget    *)
(*                     and the Fields whose texture and framebuffer it     *)
(*                     deleted                                             *)
(*   explicitIterations  <<n>> when the caller gave solverIterations = n,  *)
(*                     as a construction option or through updateSettings  *)
(*                     (the last such value), <<>> when it never did (kept *)
(*                     across operations)                                  *)

NoObs ==
    [op |-> "none", arg |-> "none", passes |-> <<>>, calls |-> <<>>,
     rebuilds |-> 0, particleRebuilds |-> 0, seeds |-> 0, thrown |-> FALSE,
     delta |-> 0, dt |-> 0, sampled |-> FALSE, lowStreak |-> 0,
     explicitIterations |-> <<>>, drawn |-> {}, created |-> 0, deleted |-> 0]

Begin(e, name, a) ==
    [e EXCEPT !.obs = [NoObs EXCEPT !.op = name, !.arg = a,
                                    !.lowStreak = e.obs.lowStreak,
                                    !.explicitIterations =
                                        e.obs.explicitIterations]]

\* reading a property of undefined or null: TypeError
Throw(e) == [e EXCEPT !.obs.thrown = TRUE]

\* an exception ends the handler: what follows the throwing call, next,
\* does not run.  Handlers chain their calls with
\* Then(x, F(_)) == Try(x, F(x)): F runs on x unless x has thrown.
Try(e, next) == IF e.obs.thrown THEN e ELSE next

\* a program that never reports a failed build
MissingIgnored(e, prog) == FALSE

\* this.programs[prog] is null: _createProgram returned null for it
Missing(e, prog) == prog \notin e.programs

\* gl.drawArrays with this.programs[prog] in use
Draw(e, prog) == [e EXCEPT !.obs.drawn = @ \cup {prog}]

----------------------------------------------------------------------------
(* Construction and reconstruction *)

\* _initParticles: draws the seed lattice into both particle textures
InitParticles(e) ==
    IF Missing(e, "particleInit") THEN Throw(e)
    ELSE Draw([e EXCEPT !.particleData = [i \in 0 .. 1 |-> SeedParticles],
                        !.obs.seeds = @ + 1], "particleInit")

\* _initParticleBuffers
InitParticleBuffers(e) ==
    IF ~HasPreset(e.settings.quality) THEN Throw(e)
    ELSE
    LET preset == Preset(e.settings.quality)
        count == preset.particles
        dataSize == CeilSqrt(count)
    IN  InitParticles(
          [e EXCEPT !.particleDataSize = dataSize,
                    !.particleCount = dataSize * dataSize,
                    !.particleReadIdx = 0,
                    !.obs.particleRebuilds = @ + 1,
                    !.obs.deleted =
                        IF e.particleDataSize > 0 THEN @ + ParticleFields
                        ELSE @,
                    !.obs.created = @ + ParticleFields])

\* _initFramebuffers with Math.floor in place of Math.round
InitFramebuffersFloor(e, vp) ==
    IF ~HasPreset(e.settings.quality) THEN Throw(e)
    ELSE
    LET preset == Preset(e.settings.quality)
        w == Max(MinSimSize, vp[1] \div preset.scaleDen)
        h == Max(MinSimSize, vp[2] \div preset.scaleDen)
    IN  InitParticleBuffers(
          [e EXCEPT !.simWidth = w,
                    !.simHeight = h,
                    !.aspectRatio = <<w, h>>,
                    !.settings.solverIterations = preset.iterations,
                    !.velocityFBO = CreateDoubleFBO,
                    !.pressureFBO = CreateDoubleFBO,
                    !.divergenceFBO = CreateRenderTarget,
                    !.dyeFBO = CreateDoubleFBO,
                    !.velIdx = 0,
                    !.pressIdx = 0,
                    !.dyeIdx = 0,
                    !.obs.rebuilds = @ + 1,
                    !.obs.created = @ + SimFields])

\* _initFramebuffers; vp is window.innerWidth, window.innerHeight
InitFramebuffers(e, vp) ==
    IF ~HasPreset(e.settings.quality) THEN Throw(e)
    ELSE
    LET preset == Preset(e.settings.quality)
        w == Max(MinSimSize, Round(vp[1], preset.scaleDen))
        h == Max(MinSimSize, Round(vp[2], preset.scaleDen))
    IN  InitParticleBuffers(
          [e EXCEPT !.simWidth = w,
                    !.simHeight = h,
                    !.aspectRatio = <<w, h>>,
                    !.settings.solverIterations = preset.iterations,
                    !.velocityFBO = CreateDoubleFBO,
                    !.pressureFBO = CreateDoubleFBO,
                    !.divergenceFBO = CreateRenderTarget,
                    !.dyeFBO = CreateDoubleFBO,
                    !.velIdx = 0,
                    !.pressIdx = 0,
                    !.dyeIdx = 0,
                    !.obs.rebuilds = @ + 1,
                    !.obs.created = @ + SimFields])

\* _resize that reconstructs whatever the derived size is
ResizeHandlerAlways(e, vp) ==
    LET e1 == [e EXCEPT !.canvas = vp]
    IN  IF ~HasPreset(e1.settings.quality) THEN Throw(e1)
        ELSE InitFramebuffers(e1, vp)

\* _resize
ResizeHandler(e, vp) ==
    LET e1 == [e EXCEPT !.canvas = vp]
    IN  IF ~HasPreset(e1.settings.quality) THEN Throw(e1)
        ELSE
        LET preset == Preset(e1.settings.quality)
            newW == Max(MinSimSize, Round(vp[1], preset.scaleDen))
            newH == Max(MinSimSize, Round(vp[2], preset.scaleDen))
        IN  IF newW # e1.simWidth \/ newH # e1.simHeight
            THEN InitFramebuffers(e1, vp)
            ELSE e1

\* setQuality(q)
SetQualityOp(e, q, vp) ==
    InitFramebuffers(
        [e EXCEPT !.settings.quality = Max(0, Min(MaxQuality, q))], vp)

\* updateSettings(s)
UpdateSettingsOp(e, s) ==
    [e EXCEPT !.settings = ObjectAssign(@, s),
              !.obs.explicitIterations =
                  IF "solverIterations" \in DOMAIN s
                  THEN <<s.solverIterations>> ELSE @]

\* reset() that clears the Fields and forgets to re-seed the particles
ResetOpNoSeed(e) ==
    [e EXCEPT !.velocityFBO = [i \in 0 .. 1 |-> ClearedTexel],
              !.pressureFBO = [i \in 0 .. 1 |-> ClearedTexel],
              !.dyeFBO = [i \in 0 .. 1 |-> ClearedTexel]]

\* reset()
ResetOp(e) ==
    InitParticles(
        [e EXCEPT !.velocityFBO = [i \in 0 .. 1 |-> ClearedTexel],
                  !.pressureFBO = [i \in 0 .. 1 |-> ClearedTexel],
                  !.dyeFBO = [i \in 0 .. 1 |-> ClearedTexel]])

----------------------------------------------------------------------------
(* Simulation passes.  Each pass appends to obs.passes the Field it wrote  *)
(* and the Fields it bound as inputs, named <<buffer, index>>, the pointer *)
(* uniforms it uploaded (<<>> for a pass that uploads none), and how many  *)
(* reconstructions the handler had run when the pass drew.                 *)

Pass(name, reads, write) ==
    [pass |-> name, reads |-> reads, write |-> write, uniforms |-> <<>>,
     rebuilds |-> 0]

\* u_pointer, u_lastPointer and u_isDown as _applyForces and _updateDye
\* upload them
PointerUniforms(e) ==
    <<e.pointer.x, e.pointer.y, e.lastPointer.x, e.lastPointer.y,
      e.pointer.isDown>>

Logged(e, entry) ==
    [e EXCEPT !.obs.passes =
        Append(@, [entry EXCEPT !.rebuilds = e.obs.rebuilds])]

\* _advect that does not flip the read index after its draw
AdvectNoFlip(e, target, idxName, name) ==
    IF Missing(e, "advect") THEN Throw(e)
    ELSE
    LET readIdx == e[idxName]
        writeIdx == 1 - readIdx
        src == e[target][readIdx]
        out == [v |-> src.v, a |-> ScaleAlpha(src.a)]
    IN  Logged(Draw([e EXCEPT ![target][writeIdx] = out], "advect"),
               Pass(name,
                    {<<"velocityFBO", e.velIdx>>, <<target, readIdx>>},
                    <<target, writeIdx>>))

\* _advect(target, idxName, dt, dissipation)
Advect(e, target, idxName, name) ==
    IF Missing(e, "advect") THEN Throw(e)
    ELSE
    LET readIdx == e[idxName]
        writeIdx == 1 - readIdx
        src == e[target][readIdx]
        out == [v |-> src.v, a |-> ScaleAlpha(src.a)]
    IN  Logged(Draw([e EXCEPT ![target][writeIdx] = out,
                              ![idxName] = writeIdx], "advect"),
               Pass(name,
                    {<<"velocityFBO", e.velIdx>>, <<target, readIdx>>},
                    <<target, writeIdx>>))

\* _applyForces(dt) with the force shader
ApplyForces(e) ==
    IF Missing(e, "force") THEN Throw(e)
    ELSE
    LET writeIdx == 1 - e.velIdx
        src == e.velocityFBO[e.velIdx]
        pushed == e.pointer.isDown
                    /\ <<e.pointer.x, e.pointer.y>>
                         # <<e.lastPointer.x, e.lastPointer.y>>
        out == [v |-> IF pushed THEN "data" ELSE src.v, a |-> "one"]
    IN  Logged(Draw([e EXCEPT !.velocityFBO[writeIdx] = out,
                              !.velIdx = writeIdx], "force"),
               [Pass("apply-forces", {<<"velocityFBO", e.velIdx>>},
                     <<"velocityFBO", writeIdx>>)
                  EXCEPT !.uniforms = PointerUniforms(e)])

\* _computeDivergence() binding the velocity Field that is not current
ComputeDivergenceStale(e) ==
    IF Missing(e, "divergence") THEN Throw(e)
    ELSE
    LET src == e.velocityFBO[1 - e.velIdx]
    IN  Logged(Draw([e EXCEPT !.divergenceFBO = [v |-> src.v, a |-> "one"]],
                    "divergence"),
               Pass("compute-divergence", {<<"velocityFBO", 1 - e.velIdx>>},
                    <<"divergenceFBO", 0>>))

\* _computeDivergence() with the divergence shader
ComputeDivergence(e) ==
    IF Missing(e, "divergence") THEN Throw(e)
    ELSE
    LET src == e.velocityFBO[e.velIdx]
    IN  Logged(Draw([e EXCEPT !.divergenceFBO = [v |-> src.v, a |-> "one"]],
                    "divergence"),
               Pass("compute-divergence", {<<"velocityFBO", e.velIdx>>},
                    <<"divergenceFBO", 0>>))

\* one iteration of the loop of _solvePressure() with the pressure shader
PressureIteration(e) ==
    LET writeIdx == 1 - e.pressIdx
        out == [v |-> Combine({e.pressureFBO[e.pressIdx].v, e.divergenceFBO.v}),
                a |-> "one"]
    IN  Logged(Draw([e EXCEPT !.pressureFBO[writeIdx] = out,
                              !.pressIdx = writeIdx], "pressure"),
               Pass("pressure-solve",
                    {<<"pressureFBO", e.pressIdx>>, <<"divergenceFBO", 0>>},
                    <<"pressureFBO", writeIdx>>))

RECURSIVE PressureLoop(_, _)
\* for (let i = 0; i < this.settings.solverIterations; i++)
PressureLoop(e, i) ==
    IF i < e.settings.solverIterations
    THEN PressureLoop(PressureIteration(e), i + 1)
    ELSE e

\* _solvePressure() leaving the loop one iteration early
SolvePressureEarlyExit(e) ==
    IF Missing(e, "pressure") THEN Throw(e) ELSE PressureLoop(e, 1)

\* _solvePressure()
SolvePressure(e) ==
    IF Missing(e, "pressure") THEN Throw(e) ELSE PressureLoop(e, 0)

\* _subtractGradient() with the gradient shader
SubtractGradient(e) ==
    IF Missing(e, "gradient") THEN Throw(e)
    ELSE
    LET writeIdx == 1 - e.velIdx
        out == [v |-> Combine({e.velocityFBO[e.velIdx].v,
                               e.pressureFBO[e.pressIdx].v}),
                a |-> "one"]
    IN  Logged(Draw([e EXCEPT !.velocityFBO[writeIdx] = out,
                              !.velIdx = writeIdx], "gradient"),
               Pass("subtract-gradient",
                    {<<"pressureFBO", e.pressIdx>>, <<"velocityFBO", e.velIdx>>},
                    <<"velocityFBO", writeIdx>>))

\* _updateDye(dt) with the dye shader: rgb decays, alpha is copied
UpdateDye(e) ==
    IF Missing(e, "dye") THEN Throw(e)
    ELSE
    LET writeIdx == 1 - e.dyeIdx
        src == e.dyeFBO[e.dyeIdx]
        out == [v |-> IF e.pointer.isDown THEN "data" ELSE src.v, a |-> src.a]
    IN  Logged(Draw([e EXCEPT !.dyeFBO[writeIdx] = out,
                              !.dyeIdx = writeIdx], "dye"),
               [Pass("update-dye", {<<"dyeFBO", e.dyeIdx>>},
                     <<"dyeFBO", writeIdx>>)
                  EXCEPT !.uniforms = PointerUniforms(e)])

\* _updateParticles(dt) with the particle-update shader (u_drag = 1.0)
UpdateParticles(e) ==
    IF Missing(e, "particleUpdate") THEN Throw(e)
    ELSE
    LET writeIdx == 1 - e.particleReadIdx
        src == e.particleData[e.particleReadIdx]
        flow == e.velocityFBO[e.velIdx].v
        out == [pos |-> IF flow = "zero" THEN src.pos ELSE "moved",
                vel |-> flow]
    IN  Logged(Draw([e EXCEPT !.particleData[writeIdx] = out,
                              !.particleReadIdx = writeIdx],
                    "particleUpdate"),
               Pass("update-particles",
                    {<<"particleData", e.particleReadIdx>>,
                     <<"velocityFBO", e.velIdx>>},
                    <<"particleData", writeIdx>>))

\* this._advect(this.velocityFBO, 'velIdx', dt, velocityDissipation)
AdvectVelocity(e) == Advect(e, "velocityFBO", "velIdx", "advect-velocity")

\* this._advect(this.dyeFBO, 'dyeIdx', dt, dyeDecay)
AdvectDye(e) == Advect(e, "dyeFBO", "dyeIdx", "advect-dye")

\* the end of _step: lastPointer takes the pointer's position
KeepPointer(e) ==
    [e EXCEPT !.lastPointer = [x |-> e.pointer.x, y |-> e.pointer.y]]

\* _step(dt) has returned
StepDone(e, dt) == [e EXCEPT !.obs.dt = dt, !.obs.calls = Append(@, "step")]

\* _step(dt) with the dye advected before the dye update
StepDyeAdvectedFirst(e, dt) ==
    LET e1 == Advect(e, "velocityFBO", "velIdx", "advect-velocity")
        e2 == ApplyForces(e1)
        e3 == ComputeDivergence(e2)
        e4 == SolvePressure(e3)
        e5 == SubtractGradient(e4)
        e6 == Advect(e5, "dyeFBO", "dyeIdx", "advect-dye")
        e7 == UpdateDye(e6)
        e8 == UpdateParticles(e7)
    IN  [e8 EXCEPT !.lastPointer = [x |-> e8.pointer.x, y |-> e8.pointer.y],
                   !.obs.dt = dt,
                   !.obs.calls = Append(@, "step")]

\* _step(dt) that leaves lastPointer alone
StepKeepLastPointer(e, dt) ==
    LET Then(x, F(_)) == Try(x, F(x))
        e1 == AdvectVelocity(e)
        e2 == Then(e1, ApplyForces)
        e3 == Then(e2, ComputeDivergence)
        e4 == Then(e3, SolvePressure)
        e5 == Then(e4, SubtractGradient)
        e6 == Then(e5, UpdateDye)
        e7 == Then(e6, AdvectDye)
        e8 == Then(e7, UpdateParticles)
    IN  Then(e8, LAMBDA s : StepDone(s, dt))

\* _step(dt) that advances lastPointer before the dye pass reads it
StepLastPointerEarly(e, dt) ==
    LET Then(x, F(_)) == Try(x, F(x))
        e1 == AdvectVelocity(e)
        e2 == Then(e1, ApplyForces)
        e3 == Then(e2, ComputeDivergence)
        e4 == Then(e3, SolvePressure)
        e5 == Then(e4, SubtractGradient)
        l5 == Then(e5, KeepPointer)
        e6 == Then(l5, UpdateDye)
        e7 == Then(e6, AdvectDye)
        e8 == Then(e7, UpdateParticles)
    IN  Then(e8, LAMBDA s : StepDone(s, dt))

\* _step(dt)
Step(e, dt) ==
    LET Then(x, F(_)) == Try(x, F(x))
        e1 == AdvectVelocity(e)
        e2 == Then(e1, ApplyForces)
        e3 == Then(e2, ComputeDivergence)
        e4 == Then(e3, SolvePressure)
        e5 == Then(e4, SubtractGradient)
        e6 == Then(e5, UpdateDye)
        e7 == Then(e6, AdvectDye)
        e8 == Then(e7, UpdateParticles)
    IN  Then(e8, LAMBDA s : StepDone(KeepPointer(s), dt))

\* the call of the method or browser function name has returned
Called(e, name) == [e EXCEPT !.obs.calls = Append(@, name)]

\* _renderParticles(): draws particleData[particleReadIdx]
RenderParticles(e) ==
    IF Missing(e, "particleRender") THEN Throw(e)
    ELSE Draw(e, "particleRender")

\* _renderDye(): draws dyeFBO[dyeIdx]
RenderDye(e) ==
    IF Missing(e, "display") THEN Throw(e) ELSE Draw(e, "display")

\* _render()
Render(e) ==
    LET Then(x, F(_)) == Try(x, F(x))
        e1 == RenderParticles(e)
        e2 == Then(e1, RenderDye)
    IN  Then(e2, LAMBDA s : Called(s, "render"))

----------------------------------------------------------------------------
(* The frame loop *)

\* the timestep without its cap
FrameDtUncapped(delta) == delta

\* Math.min((now - this.lastFrameTime) / 1000, 0.02), in milliseconds
FrameDt(delta) == Min(delta, MaxDtMs)

\* the adjustment without the else branch that clears the counter
AdjustQualityNoClear(e, vp) ==
    IF e.autoQualityEnabled /\ e.currentFps < LowFpsThreshold
                            /\ e.settings.quality > 0
    THEN LET e1 == [e EXCEPT !.lowFpsCount = @ + 1]
         IN  IF e1.lowFpsCount >= LowFpsLimit
             THEN LET e2 == SetQualityOp(e1, e1.settings.quality - 1, vp)
                  IN  IF e2.obs.thrown THEN e2
                      ELSE [e2 EXCEPT !.lowFpsCount = 0]
             ELSE e1
    ELSE e

\* the adjustment lowering the level without clearing the counter after it
AdjustQualityKeepCount(e, vp) ==
    IF e.autoQualityEnabled /\ e.currentFps < LowFpsThreshold
                            /\ e.settings.quality > 0
    THEN LET e1 == [e EXCEPT !.lowFpsCount = @ + 1]
         IN  IF e1.lowFpsCount >= LowFpsLimit
             THEN SetQualityOp(e1, e1.settings.quality - 1, vp)
             ELSE e1
    ELSE [e EXCEPT !.lowFpsCount = 0]

\* the automatic quality adjustment of _animate, run when a window closes
AdjustQuality(e, vp) ==
    IF e.autoQualityEnabled /\ e.currentFps < LowFpsThreshold
                            /\ e.settings.quality > 0
    THEN LET e1 == [e EXCEPT !.lowFpsCount = @ + 1]
         IN  IF e1.lowFpsCount >= LowFpsLimit
             THEN LET e2 == SetQualityOp(e1, e1.settings.quality - 1, vp)
                  IN  IF e2.obs.thrown THEN e2
                      ELSE [e2 EXCEPT !.lowFpsCount = 0]
             ELSE e1
    ELSE [e EXCEPT !.lowFpsCount = 0]

\* the FPS sampling of _animate; fpsAge is now - this.lastFpsTime
SampleFps(e, vp, delta) ==
    LET counted == [e EXCEPT !.frameCount = @ + 1]
        elapsed == e.fpsAge + delta
    IN  IF elapsed >= FpsWindowMs
        THEN LET fps == Round(counted.frameCount * 1000, elapsed)
             IN  AdjustQuality(
                   [counted EXCEPT
                      !.currentFps = fps,
                      !.frameCount = 0,
                      !.fpsAge = 0,
                      !.obs.sampled = TRUE,
                      !.obs.lowStreak = IF fps < LowFpsThreshold
                                        THEN Min(@ + 1, LowFpsLimit)
                                        ELSE 0], vp)
        ELSE [counted EXCEPT !.fpsAge = elapsed]

\* _animate() that renders before it steps and schedules two callbacks
AnimateRenderFirst(e, vp, delta) ==
    LET e0 == [e EXCEPT !.obs.delta = delta]
        e1 == SampleFps(e0, vp, delta)
    IN  IF e1.obs.thrown THEN e1
        ELSE LET e2 == Step(Render(e1), FrameDt(delta))
             IN  [e2 EXCEPT !.obs.calls =
                      @ \o <<"requestAnimationFrame", "requestAnimationFrame">>]

\* _animate(); delta is now - this.lastFrameTime
Animate(e, vp, delta) ==
    LET Then(x, F(_)) == Try(x, F(x))
        e0 == [e EXCEPT !.obs.delta = delta]
        e1 == SampleFps(e0, vp, delta)
        e2 == Then(e1, LAMBDA s : Step(s, FrameDt(delta)))
        e3 == Then(e2, Render)
    IN  Then(e3, LAMBDA s : Called(s, "requestAnimationFrame"))

\* number of requestAnimationFrame calls of the last _animate
Scheduled(e) ==
    Cardinality({i \in DOMAIN e.obs.calls :
                    e.obs.calls[i] = "requestAnimationFrame"})

----------------------------------------------------------------------------
(* Construction *)

\* the fields the constructor assigns before it calls the _init methods
\* (of settings, only the keys the model reads)
NewEngine(options) ==
    [constructed |-> FALSE,
     listening |-> FALSE,
     programs |-> AllPrograms,
     settings |-> [quality |-> Coalesce(options, "quality", DefaultQuality),
                   solverIterations |->
                       Coalesce(options, "solverIterations",
                                DefaultSolverIterations)],
     simWidth |-> 0,
     simHeight |-> 0,
     aspectRatio |-> <<1, 1>>,
     pointer |-> [x |-> 0, y |-> 0, isDown |-> FALSE, moved |-> FALSE],
     lastPointer |-> [x |-> 0, y |-> 0],
     frameCount |-> 0,
     fpsAge |-> 0,
     currentFps |-> 60,
     autoQualityEnabled |-> Coalesce(options, "autoQuality", TRUE) # FALSE,
     lowFpsCount |-> 0,
     canvas |-> <<300, 150>>,
     velocityFBO |-> CreateDoubleFBO,
     pressureFBO |-> CreateDoubleFBO,
     divergenceFBO |-> CreateRenderTarget,
     dyeFBO |-> CreateDoubleFBO,
     velIdx |-> 0,
     pressIdx |-> 0,
     dyeIdx |-> 0,
     particleData |-> [i \in 0 .. 1 |-> SeedParticles],
     particleDataSize |-> 0,
     particleCount |-> 0,
     particleReadIdx |-> 0,
     obs |-> [NoObs EXCEPT
                !.op = "constructor",
                !.explicitIterations =
                    IF "solverIterations" \in DOMAIN options
                    THEN <<options.solverIterations>> ELSE <<>>]]

\* _initEventListeners: the handlers are registered
InitEventListeners(e) == [e EXCEPT !.listening = TRUE]

\* the constructor returns the engine unless it threw
Returned(e) == [e EXCEPT !.constructed = ~e.obs.thrown]

\* new DaemonFluidEngine(canvasId, options) where _initShaders built the
\* given programs: _initFramebuffers, _initEventListeners, _resize and the
\* first _animate.  A TypeError ends the constructor: the host gets no
\* engine, and the listeners stay if they were registered before it.
ConstructorWith(options, vp, delta, programs) ==
    LET Then(x, F(_)) == Try(x, F(x))
        e0 == [NewEngine(options) EXCEPT !.programs = programs]
        e1 == InitFramebuffers(e0, vp)
        e2 == Then(e1, LAMBDA s : ResizeHandler(InitEventListeners(s), vp))
        e3 == Then(e2, LAMBDA s : Animate(s, vp, delta))
    IN  Returned(e3)

\* new DaemonFluidEngine(canvasId, options) with every program built
Constructor(options, vp, delta) ==
    ConstructorWith(options, vp, delta, AllPrograms)

\* the states after construction, for the given options objects and the
\* given times (ms) between the constructor reading the clock and its
\* first frame
InitWith(optionsSet, deltas) ==
    \E options \in optionsSet, vp \in Viewports, delta \in deltas :
        /\ engine = Constructor(options, vp, delta)
        /\ viewport = vp
        /\ rafPending = Scheduled(engine)

----------------------------------------------------------------------------
(* Actions: one per handler *)

\* the frame callback registered by requestAnimationFrame
Frame(delta) ==
    /\ engine.constructed
    /\ rafPending > 0
    /\ engine' = Animate(Begin(engine, "frame", "none"), viewport, delta)
    /\ rafPending' = (rafPending - 1) + Scheduled(engine')
    /\ UNCHANGED viewport

\* window 'resize' listener; the viewport has changed to vp
Resize(vp) ==
    /\ engine.listening
    /\ viewport' = vp
    /\ engine' = ResizeHandler(Begin(engine, "resize", "none"), vp)
    /\ UNCHANGED rafPending

\* _updatePointer(e) / _updateTouch(e) with the event at clip position pos
UpdatePointer(e, pos) == [e EXCEPT !.pointer.x = pos[1], !.pointer.y = pos[2]]

\* the body shared by the 'mousedown' and 'touchstart' listeners
PointerDown(e, pos) ==
    LET e1 == UpdatePointer([e EXCEPT !.pointer.isDown = TRUE], pos)
    IN  [e1 EXCEPT !.lastPointer = [x |-> e1.pointer.x, y |-> e1.pointer.y]]

\* the body shared by the 'mousemove' and 'touchmove' listeners
PointerMove(e, pos) == UpdatePointer([e EXCEPT !.pointer.moved = TRUE], pos)

\* the body shared by the 'mouseup' and 'touchend' listeners
PointerUp(e) == [e EXCEPT !.pointer.isDown = FALSE]

MouseDown(pos) ==
    /\ engine.listening
    /\ engine' = PointerDown(Begin(engine, "input", "none"), pos)
    /\ UNCHANGED <<viewport, rafPending>>

MouseUp ==
    /\ engine.listening
    /\ engine' = PointerUp(Begin(engine, "input", "none"))
    /\ UNCHANGED <<viewport, rafPending>>

MouseMove(pos) ==
    /\ engine.listening
    /\ engine' = PointerMove(Begin(engine, "input", "none"), pos)
    /\ UNCHANGED <<viewport, rafPending>>

TouchStart(pos) ==
    /\ engine.listening
    /\ engine' = PointerDown(Begin(engine, "input", "none"), pos)
    /\ UNCHANGED <<viewport, rafPending>>

TouchEnd ==
    /\ engine.listening
    /\ engine' = PointerUp(Begin(engine, "input", "none"))
    /\ UNCHANGED <<viewport, rafPending>>

TouchMove(pos) ==
    /\ engine.listening
    /\ engine' = PointerMove(Begin(engine, "input", "none"), pos)
    /\ UNCHANGED <<viewport, rafPending>>

\* engine.setQuality(q)
SetQuality(q) ==
    /\ engine.constructed
    /\ engine' = SetQualityOp(Begin(engine, "setQuality", <<q>>), q, viewport)
    /\ UNCHANGED <<viewport, rafPending>>

\* engine.updateSettings(s)
UpdateSettings(s) ==
    /\ engine.constructed
    /\ engine' = UpdateSettingsOp(Begin(engine, "updateSettings", "none"), s)
    /\ UNCHANGED <<viewport, rafPending>>

\* engine.reset()
Reset ==
    /\ engine.constructed
    /\ engine' = ResetOp(Begin(engine, "reset", "none"))
    /\ UNCHANGED <<viewport, rafPending>>

(* All handlers, with a coarse clock: every later frame is a stall. *)

Init == InitWith({[autoQuality |-> TRUE]}, {10, FpsWindowMs})

Next ==
    \/ Frame(StallMs)
    \/ \E vp \in Viewports : Resize(vp)
    \/ \E pos \in PointerPositions : MouseDown(pos)
    \/ MouseUp
    \/ \E pos \in PointerPositions : MouseMove(pos)
    \/ \E pos \in PointerPositions : TouchStart(pos)
    \/ TouchEnd
    \/ \E pos \in PointerPositions : TouchMove(pos)
    \/ SetQuality(3)
    \/ \E n \in IterationInputs : UpdateSettings([solverIterations |-> n])
    \/ Reset

Spec == Init /\ [][Next]_vars

(* The configuration calls and resize events, with a coarse clock and no   *)
(* pointer events.                                                         *)

InitConfig == InitWith(OptionsInputs, {FpsWindowMs})

NextConfig ==
    \/ Frame(StallMs)
    \/ \E vp \in Viewports : Resize(vp)
    \/ \E q \in QualityInputs : SetQuality(q)
    \/ \E s \in {[quality |-> 0],
                 [quality |-> MaxQuality + QualityMargin],
                 [quality |-> 0 - QualityMargin]} : UpdateSettings(s)
    \/ \E n \in IterationInputs : UpdateSettings([solverIterations |-> n])
    \/ Reset

SpecConfig == InitConfig /\ [][NextConfig]_vars

(* The frame loop with a fine clock, and the calls that act on the         *)
(* automatic quality adjustment.                                           *)

InitClock ==
    InitWith({[autoQuality |-> TRUE], [autoQuality |-> FALSE]},
             {10, FastFrameMs, FpsWindowMs})

NextClock ==
    \/ \E delta \in {FastFrameMs, StallMs} : Frame(delta)
    \/ \E q \in {0, MaxQuality} : SetQuality(q)
    \/ \E s \in {[quality |-> MaxQuality + QualityMargin],
                 [autoQuality |-> FALSE]} : UpdateSettings(s)

SpecClock == InitClock /\ [][NextClock]_vars

(* Construction with a program that failed to build, and the frames and    *)
(* events after it.                                                        *)

InitPrograms ==
    \E programs \in ProgramInputs, vp \in Viewports :
        /\ engine = ConstructorWith([autoQuality |-> TRUE], vp, FpsWindowMs,
                                    programs)
        /\ viewport = vp
        /\ rafPending = Scheduled(engine)

NextPrograms ==
    \/ Frame(StallMs)
    \/ \E vp \in Viewports : Resize(vp)
    \/ \E pos \in PointerPositions : MouseDown(pos)
    \/ \E pos \in PointerPositions : MouseMove(pos)
    \/ MouseUp

SpecPrograms == InitPrograms /\ [][NextPrograms]_vars

----------------------------------------------------------------------------
(* The particle-update shader on one particle texel, in fixed point.  A    *)
(* position is an integer count of 1 / PosUnit, so clip space [-1, 1] is   *)
(* -PosUnit .. PosUnit; a velocity is position units per millisecond and   *)
(* already carries u_flowScale.  In this specification `engine` holds the  *)
(* texel (data: pos = xy, vel = zw) and, in obs, the position the shader   *)
(* integrated before it wrapped it.                                        *)

\* position units per 1.0 of clip space
PosUnit == 8

\* flow velocities sampled from the velocity Field at the particle
ParticleFlows == { <<1, 0>>, <<0 - 1, 0 - 1>>, <<0, 1>> }

\* u_dt in milliseconds
ParticleDts == { 3, MaxDtMs }

\* seed positions: v_texCoord * 2.0 - 1.0 at texel centres
SeedPositions == { 1 - PosUnit, 0, PosUnit - 1 }

\* the remainder of C's fmod, which truncates the quotient toward zero
GlslModTruncating(x, y) ==
    IF x >= 0 THEN x - y * (x \div y) ELSE 0 - ((0 - x) - y * ((0 - x) \div y))

\* GLSL mod(x, y) = x - y * floor(x / y), for y > 0
GlslMod(x, y) == x - y * (x \div y)

\* main() of the particle-update shader on one texel
ParticleUpdateShader(data, flowVel, dt, drag, speed) ==
    LET vel == [i \in 1 .. 2 |->
                   data.vel[i] + (flowVel[i] - data.vel[i]) * drag]
        pos == [i \in 1 .. 2 |-> data.pos[i] + dt * vel[i] * speed]
        wrapped == [i \in 1 .. 2 |->
                       GlslMod(pos[i] + PosUnit, 2 * PosUnit) - PosUnit]
    IN  [data |-> [pos |-> wrapped, vel |-> vel],
         obs |-> [op |-> "update-particles", integrated |-> pos]]

\* the update-particles pass on the texel, with u_drag = 1.0 and
\* particleSpeed = 1.0
UpdateParticleTexel(flowVel, dt) ==
    /\ engine' = ParticleUpdateShader(engine.data, flowVel, dt, 1, 1)
    /\ UNCHANGED <<viewport, rafPending>>

\* the texel as the particle-init shader leaves it: vec4(pos, 0.0, 0.0)
InitParticleShader ==
    /\ \E x \in SeedPositions, y \in SeedPositions :
          engine = [data |-> [pos |-> <<x, y>>, vel |-> <<0, 0>>],
                    obs |-> [op |-> "particle-init", integrated |-> <<x, y>>]]
    /\ viewport = <<0, 0>>
    /\ rafPending = 0

NextParticleShader ==
    \E flowVel \in ParticleFlows, dt \in ParticleDts :
        UpdateParticleTexel(flowVel, dt)

SpecParticleShader == InitParticleShader /\ [][NextParticleShader]_vars

----------------------------------------------------------------------------
(* The projection passes on a whole grid, in fixed point.  In this         *)
(* specification `engine` holds the velocity and pressure DoubleBuffers    *)
(* and the divergence Field as functions from cells <<i, j>> to texel      *)
(* values: <<x, y>> for velocity, one number for pressure and divergence.  *)
(* A value is an integer count of 1 / FixedOne; FixedOne is chosen so that *)
(* every multiplication by u_halfRdx and by 0.25 below is exact.           *)

\* settings.cellSize
CellSize == 32

\* 1 / u_halfRdx = cellSize / 0.5
HalfRdxDen == 2 * CellSize

\* -u_alpha = cellSize * cellSize
AlphaMagnitude == CellSize * CellSize

FixedOne == HalfRdxDen * HalfRdxDen

\* simWidth, simHeight of the grid the passes are run on
GridSize == <<2, 2>>

Cells(res) == (0 .. (res[1] - 1)) \X (0 .. (res[2] - 1))

\* velocity texels of the input fields
VelocityInputs == {<<x * FixedOne, y * FixedOne>> : x \in {0 - 1, 0, 1}, y \in {0, 1}}

\* pressure Fields left by the frame before: all zero (as after a
\* reconstruction), or with one cell raised
PressureInputs ==
    { [c \in Cells(GridSize) |-> 0],
      [c \in Cells(GridSize) |->
          IF c = <<0, 0>> THEN 2 * HalfRdxDen * FixedOne ELSE 0] }

\* solverIterations of the projection
ProjectionIterations == {1, 2}

\* the texel index a coordinate one texel outside [0, 1] is moved to
Reflect(k, n) == IF k < 0 THEN k + 1 ELSE IF k >= n THEN k - 1 ELSE k

\* the factor of sampleVel for a coordinate outside [0, 1]
Flip(k, n) == IF k < 0 \/ k >= n THEN 0 - 1 ELSE 1

\* sampleVel(coord) of the divergence shader
SampleVel(vel, c, res) ==
    LET t == vel[<<Reflect(c[1], res[1]), Reflect(c[2], res[2])>>]
    IN  <<Flip(c[1], res[1]) * t[1], Flip(c[2], res[2]) * t[2]>>

\* sampleP(coord) of the pressure and gradient shaders
SampleP(p, c, res) == p[<<Reflect(c[1], res[1]), Reflect(c[2], res[2])>>]

\* main() of the divergence shader at cell c
DivergenceShader(vel, c, res) ==
    LET L == SampleVel(vel, <<c[1] - 1, c[2]>>, res)
        R == SampleVel(vel, <<c[1] + 1, c[2]>>, res)
        B == SampleVel(vel, <<c[1], c[2] - 1>>, res)
        T == SampleVel(vel, <<c[1], c[2] + 1>>, res)
    IN  ((R[1] - L[1]) + (T[2] - B[2])) \div HalfRdxDen

\* main() of the pressure shader at cell c
PressureShader(p, div, c, res) ==
    LET L == SampleP(p, <<c[1] - 1, c[2]>>, res)
        R == SampleP(p, <<c[1] + 1, c[2]>>, res)
        B == SampleP(p, <<c[1], c[2] - 1>>, res)
        T == SampleP(p, <<c[1], c[2] + 1>>, res)
    IN  (L + R + B + T + (0 - AlphaMagnitude) * div[c]) \div 4

\* main() of the gradient shader at cell c
GradientShader(p, vel, c, res) ==
    LET L == SampleP(p, <<c[1] - 1, c[2]>>, res)
        R == SampleP(p, <<c[1] + 1, c[2]>>, res)
        B == SampleP(p, <<c[1], c[2] - 1>>, res)
        T == SampleP(p, <<c[1], c[2] + 1>>, res)
    IN  <<vel[c][1] - (R - L) \div HalfRdxDen,
          vel[c][2] - (T - B) \div HalfRdxDen>>

GridRes == <<engine.simWidth, engine.simHeight>>

\* _computeDivergence() on the grid
ComputeDivergenceGrid ==
    /\ engine.obs.op = "apply-forces"
    /\ engine' =
          [engine EXCEPT
             !.divergenceFBO =
                 [c \in Cells(GridRes) |->
                     DivergenceShader(engine.velocityFBO[engine.velIdx], c,
                                      GridRes)],
             !.obs.op = "compute-divergence"]
    /\ UNCHANGED <<viewport, rafPending>>

\* one iteration of the loop of _solvePressure() on the grid
PressureIterationGrid ==
    /\ engine.obs.op \in {"compute-divergence", "pressure-solve"}
    /\ engine.obs.iterations < engine.settings.solverIterations
    /\ engine' =
          [engine EXCEPT
             !.pressureFBO[1 - engine.pressIdx] =
                 [c \in Cells(GridRes) |->
                     PressureShader(engine.pressureFBO[engine.pressIdx],
                                    engine.divergenceFBO, c, GridRes)],
             !.pressIdx = 1 - engine.pressIdx,
             !.obs.iterations = @ + 1,
             !.obs.op = "pressure-solve"]
    /\ UNCHANGED <<viewport, rafPending>>

\* _subtractGradient() on the grid, after the last iteration
SubtractGradientGrid ==
    /\ engine.obs.op \in {"compute-divergence", "pressure-solve"}
    /\ engine.obs.iterations = engine.settings.solverIterations
    /\ engine' =
          [engine EXCEPT
             !.velocityFBO[1 - engine.velIdx] =
                 [c \in Cells(GridRes) |->
                     GradientShader(engine.pressureFBO[engine.pressIdx],
                                    engine.velocityFBO[engine.velIdx], c,
                                    GridRes)],
             !.velIdx = 1 - engine.velIdx,
             !.obs.op = "subtract-gradient"]
    /\ UNCHANGED <<viewport, rafPending>>

\* a frame that has run advect and apply-forces: any velocity Field that is
\* not zero everywhere, and the pressure of the frame before
InitProjection ==
    /\ \E vel \in [Cells(GridSize) -> VelocityInputs],
          p \in PressureInputs, n \in ProjectionIterations :
          /\ \E c \in Cells(GridSize) : vel[c] # <<0, 0>>
          /\ engine = [simWidth |-> GridSize[1],
                       simHeight |-> GridSize[2],
                       settings |-> [solverIterations |-> n],
                       velocityFBO |-> [i \in 0 .. 1 |-> vel],
                       velIdx |-> 0,
                       pressureFBO |-> [i \in 0 .. 1 |-> p],
                       pressIdx |-> 0,
                       divergenceFBO |-> [c \in Cells(GridSize) |-> 0],
                       obs |-> [op |-> "apply-forces", iterations |-> 0]]
    /\ viewport = GridSize
    /\ rafPending = 0

NextProjection ==
    \/ ComputeDivergenceGrid
    \/ PressureIterationGrid
    \/ SubtractGradientGrid

SpecProjection == InitProjection /\ [][NextProjection]_vars

----------------------------------------------------------------------------
(* Properties *)

\* the last handler ran a frame: a frame callback, or the constructor's
\* direct call of _animate
FrameRan == engine.constructed /\ engine.obs.op \in {"constructor", "frame"}

PassNames == [i \in DOMAIN engine.obs.passes |-> engine.obs.passes[i].pass]

ExpectedPasses(n) ==
    <<"advect-velocity", "apply-forces", "compute-divergence">>
      \o [i \in 1 .. n |-> "pressure-solve"]
      \o <<"subtract-gradient", "update-dye", "advect-dye", "update-particles">>

\* the grid dimension the claims derive from a viewport dimension and a level
DerivedSize(inner, q) == Max(MinSimSize, Round(inner, Preset(q).scaleDen))

\* the particle count of a level: the least square side * side that is
\* at least the preset's particle count
DerivedParticleCount(q) ==
    LET side == CHOOSE k \in 0 .. Preset(q).particles :
                    k * k >= Preset(q).particles
                      /\ (k = 0 \/ (k - 1) * (k - 1) < Preset(q).particles)
    IN  side * side

Clamped(q) == Max(0, Min(MaxQuality, q))

\* every Field of the simulation and of the particle state is as created
AllFresh ==
    /\ \A i \in 0 .. 1 :
          /\ engine.velocityFBO[i] = FreshTexel
          /\ engine.pressureFBO[i] = FreshTexel
          /\ engine.dyeFBO[i] = FreshTexel
          /\ engine.particleData[i] = SeedParticles
    /\ engine.divergenceFBO = FreshTexel
    /\ engine.velIdx = 0 /\ engine.pressIdx = 0 /\ engine.dyeIdx = 0
    /\ engine.particleReadIdx = 0

(* C1: every frame runs the eight passes in the fixed order, each once,    *)
(* with the pressure solve as one block of solverIterations iterations,    *)
(* whatever calls and events came before.                                  *)
C1_PassOrder ==
    FrameRan => PassNames = ExpectedPasses(engine.settings.solverIterations)

\* a frame that lowered the quality itself, reconstructing before its
\* step, on an engine whose pointer is down and has moved
C1_Witness ==
    /\ engine.obs.op = "frame"
    /\ engine.pointer.isDown /\ engine.pointer.moved
    /\ engine.obs.rebuilds = 1
    /\ Len(engine.obs.passes) = 7 + engine.settings.solverIterations

C3_OnlyFifthLowers ==
    [][ engine'.obs.op = "frame"
        => ( /\ engine'.settings.quality <= engine.settings.quality
             /\ ( engine'.settings.quality # engine.settings.quality
                    => ( /\ engine'.obs.sampled
                         /\ engine'.currentFps < LowFpsThreshold
                         /\ engine'.obs.lowStreak = LowFpsLimit ) )
             /\ ( (engine'.obs.sampled
                     /\ engine'.currentFps >= LowFpsThreshold)
                    => engine'.lowFpsCount = 0 )
             /\ engine'.lowFpsCount <= engine'.obs.lowStreak ) ]_vars

\* a frame closing a window at the threshold itself (20 FPS): the counter
\* and the run of low windows are at 0 and the level is still the top one
C3_Witness ==
    /\ engine.obs.op = "frame"
    /\ engine.obs.sampled
    /\ engine.currentFps = LowFpsThreshold
    /\ engine.autoQualityEnabled
    /\ engine.settings.quality = MaxQuality
    /\ engine.lowFpsCount = 0
    /\ engine.obs.lowStreak = 0

\* what C4 says of setQuality apart from the particle count
SetQualityRebuilt(q) ==
    /\ engine.settings.quality = q
    /\ ~engine.obs.thrown
    /\ engine.obs.rebuilds = 1
    /\ engine.obs.particleRebuilds = 1
    /\ engine.obs.seeds = 1
    /\ AllFresh
    /\ engine.simWidth = DerivedSize(viewport[1], q)
    /\ engine.simHeight = DerivedSize(viewport[2], q)
    /\ engine.aspectRatio[1] * engine.simHeight
         = engine.aspectRatio[2] * engine.simWidth
    /\ engine.settings.solverIterations = Preset(q).iterations

(* C4 as stated: setQuality(level) stores min(4, max(0, level)),           *)
(* reconstructs all Fields and the particle state once, derives the grid   *)
(* from the viewport and the preset, recomputes the aspect ratio, and the  *)
(* iteration count and the particle count are the preset's.                *)
C4_AsStated ==
    engine.obs.op = "setQuality"
      => LET q == Clamped(engine.obs.arg[1])
         IN  /\ SetQualityRebuilt(q)
             /\ engine.particleCount = Preset(q).particles

(* C4 amended: setQuality(level) stores min(4, max(0, level)), runs one    *)
(* reconstruction of all Fields and of the particle state, and afterwards  *)
(* gridWidth = max(32, round(viewportWidth * scale)), likewise the height, *)
(* aspectRatio = gridWidth / gridHeight, the iteration count is the        *)
(* preset's, and the particle count is the least square number that is at  *)
(* least the preset's particle count.                                      *)
C4_SetQuality ==
    engine.obs.op = "setQuality"
      => LET q == Clamped(engine.obs.arg[1])
         IN  /\ SetQualityRebuilt(q)
             /\ engine.particleCount = DerivedParticleCount(q)

\* setQuality above the range on the viewport whose half is not whole
C4_Witness ==
    /\ engine.obs.op = "setQuality"
    /\ engine.obs.arg[1] > MaxQuality
    /\ engine.settings.quality = MaxQuality
    /\ viewport = <<101, 90>>
    /\ engine.simWidth = 51

(* C5: the stored quality level is always in 0..4 and no operation raises  *)
(* an error because of a quality value outside that range.                 *)
C5_QualityClamped ==
    /\ engine.settings.quality \in 0 .. MaxQuality
    /\ ~engine.obs.thrown

(* C6: at every frame the grid and the particle count are the ones derived *)
(* from the preset of the stored quality level (here for stored levels     *)
(* that have a preset).                                                    *)
C6_FrameMatchesPreset ==
    (engine.obs.op = "frame" /\ HasPreset(engine.settings.quality))
      => /\ engine.simWidth = DerivedSize(viewport[1], engine.settings.quality)
         /\ engine.simHeight = DerivedSize(viewport[2], engine.settings.quality)
         /\ engine.particleCount = DerivedParticleCount(engine.settings.quality)

\* what reset() must leave alone
ResetKeeps ==
    /\ engine'.simWidth = engine.simWidth
    /\ engine'.simHeight = engine.simHeight
    /\ engine'.aspectRatio = engine.aspectRatio
    /\ engine'.settings = engine.settings
    /\ engine'.particleCount = engine.particleCount
    /\ engine'.particleDataSize = engine.particleDataSize

(* C7 as stated: reset() sets both Fields of velocity, pressure and dye to *)
(* zero (for the four-component dye: all four channels), puts every        *)
(* particle on its seed position with zero velocity, and keeps grid size,  *)
(* aspect ratio, quality level, particle count and iteration count.        *)
C7_AsStated ==
    [][ engine'.obs.op = "reset"
        => ( /\ \A i \in 0 .. 1 :
                  /\ engine'.velocityFBO[i].v = "zero"
                  /\ engine'.pressureFBO[i].v = "zero"
                  /\ engine'.dyeFBO[i].v = "zero"
                  /\ engine'.dyeFBO[i].a = "zero"
                  /\ engine'.particleData[i] = SeedParticles
             /\ ResetKeeps ) ]_vars

(* C7 amended: reset() sets the value channels of both Fields of velocity  *)
(* (xy), pressure (x) and dye (rgb) to zero and their alpha channel to 1   *)
(* (the clear colour is (0, 0, 0, 1)), puts every particle on its seed     *)
(* position with zero velocity, and keeps grid size, aspect ratio, quality *)
(* level, particle count and iteration count.                              *)
C7_Reset ==
    [][ engine'.obs.op = "reset"
        => ( /\ \A i \in 0 .. 1 :
                  /\ engine'.velocityFBO[i] = [v |-> "zero", a |-> "one"]
                  /\ engine'.pressureFBO[i] = [v |-> "zero", a |-> "one"]
                  /\ engine'.dyeFBO[i] = [v |-> "zero", a |-> "one"]
                  /\ engine'.particleData[i] = SeedParticles
             /\ ResetKeeps ) ]_vars

\* reset() on an engine whose last frame computed a nonzero divergence (so
\* its velocity held data) and left the particle read index at 1
C7_Witness ==
    /\ engine.obs.op = "reset"
    /\ engine.obs.seeds = 1
    /\ engine.divergenceFBO.v = "data"
    /\ engine.particleReadIdx = 1

(* C8: a frame runs one step, then one render, then schedules one          *)
(* callback; at most one frame callback is ever pending.                   *)
C8_OneStepOneRender ==
    /\ rafPending <= 1
    /\ FrameRan
         => /\ engine.obs.calls = <<"step", "render", "requestAnimationFrame">>
            /\ rafPending = 1

\* a frame on an engine whose pointer went down since construction
C8_Witness ==
    /\ engine.obs.op = "frame"
    /\ engine.pointer.isDown
    /\ rafPending = 1
    /\ engine.particleReadIdx = 1

(* C9: the timestep of every frame is min(elapsed, 20 ms), and so lies in  *)
(* 0 .. 20 ms.                                                             *)
C9_DtClamped ==
    FrameRan
      => /\ engine.obs.dt = (IF engine.obs.delta <= MaxDtMs
                             THEN engine.obs.delta ELSE MaxDtMs)
         /\ 0 <= engine.obs.dt
         /\ engine.obs.dt <= MaxDtMs

\* a frame after a stall: the elapsed time is far above the cap
C9_Witness ==
    /\ engine.obs.op = "frame"
    /\ engine.obs.delta = StallMs
    /\ engine.obs.dt = MaxDtMs

\* autoQuality is false, as a construction option or as set by updateSettings
AutoQualityOff(e) ==
    \/ ~e.autoQualityEnabled
    \/ ("autoQuality" \in DOMAIN e.settings /\ e.settings.autoQuality = FALSE)

(* C10: while autoQuality is false, given at construction or set through   *)
(* updateSettings, no frame changes the quality level.                     *)
C10_AutoOffKeepsLevel ==
    [][ (engine'.obs.op = "frame" /\ AutoQualityOff(engine))
        => engine'.settings.quality = engine.settings.quality ]_vars

\* the pressure iterations the last handler ran
PressurePasses ==
    {i \in DOMAIN engine.obs.passes :
        engine.obs.passes[i].pass = "pressure-solve"}

\* the iteration counts of the presets
PresetIterations ==
    {qualityPresets[i].iterations : i \in DOMAIN qualityPresets}

(* C11: once solverIterations was given explicitly, as a construction      *)
(* option or through updateSettings, every frame runs that many pressure   *)
(* iterations, also after a reconstruction by setQuality or resize; a      *)
(* frame runs the preset's count only when none was ever given.            *)
C11_ExplicitIterationsKept ==
    FrameRan
      => IF engine.obs.explicitIterations # <<>>
         THEN Cardinality(PressurePasses) = engine.obs.explicitIterations[1]
         ELSE Cardinality(PressurePasses) \in PresetIterations

(* C12: when a pass program failed to build, construction ends with an    *)
(* error, no draw call is ever issued with a missing program in use, and   *)
(* no frame callback is ever pending.                                      *)
C12_RefusesToStart ==
    engine.programs # AllPrograms
      => /\ ~engine.constructed
         /\ engine.obs.op = "constructor" => engine.obs.thrown
         /\ engine.obs.drawn \subseteq engine.programs
         /\ rafPending = 0

\* construction without the dye program: it ends with a TypeError in
\* _updateDye, after the listeners were registered and after the passes
\* before update-dye ran
C12_Witness ==
    /\ engine.programs = AllPrograms \ {"dye"}
    /\ engine.obs.op = "constructor"
    /\ engine.obs.thrown
    /\ engine.listening
    /\ Len(engine.obs.passes) > 0
    /\ "gradient" \in engine.obs.drawn

(* C13 as stated: no operation other than an input event handler changes  *)
(* the current position, the previous position, the down flag or the       *)
(* moved flag.                                                             *)
C13_AsStated ==
    [][ engine'.obs.op # "input"
        => /\ engine'.pointer = engine.pointer
           /\ engine'.lastPointer = engine.lastPointer ]_vars

(* C13 amended: no operation other than an input event handler changes    *)
(* the current position, the down flag or the moved flag; the previous     *)
(* position is changed by the core only at the end of the step of a frame, *)
(* which sets it to the current position, and by no other core operation.  *)
C13_PointerReadOnly ==
    [][ engine'.obs.op # "input"
        => /\ engine'.pointer = engine.pointer
           /\ engine'.lastPointer
                = (IF engine'.obs.op = "frame"
                   THEN [x |-> engine.pointer.x, y |-> engine.pointer.y]
                   ELSE engine.lastPointer) ]_vars

\* a frame whose apply-forces pass saw a previous position other than the
\* current one, and which left the previous position on the current one
C13_Witness ==
    /\ engine.obs.op = "frame"
    /\ engine.obs.passes[2].pass = "apply-forces"
    /\ engine.obs.passes[2].uniforms[3] # engine.obs.passes[2].uniforms[1]
    /\ engine.lastPointer.x = engine.pointer.x
    /\ engine.lastPointer.y = engine.pointer.y
    /\ engine.pointer.moved

\* the wrap law of C14 on one axis: p is the integrated position and w the
\* stored one
WrapLaw(p, w) ==
    /\ 0 - PosUnit <= w /\ w <= PosUnit
    /\ (PosUnit < p /\ p < 3 * PosUnit) => w = p - 2 * PosUnit
    /\ (0 - 3 * PosUnit <= p /\ p < 0 - PosUnit) => w = p + 2 * PosUnit
    /\ (0 - PosUnit <= p /\ p < PosUnit) => w = p

(* C14: after every update-particles pass the stored position lies in      *)
(* [-1, 1] on both axes: an integrated position p in (1, 3) is stored as   *)
(* p - 2, one in [-3, -1) as p + 2, and one in [-1, 1) unchanged.          *)
C14_ParticleWrap ==
    engine.obs.op = "update-particles"
      => \A i \in 1 .. 2 :
            WrapLaw(engine.obs.integrated[i], engine.data.pos[i])

\* an update that drove the particle out through x = +1, stored at p - 2,
\* while its y stayed inside the domain
C14_Witness ==
    /\ engine.obs.op = "update-particles"
    /\ engine.obs.integrated[1] > PosUnit
    /\ engine.obs.integrated[1] < 3 * PosUnit
    /\ engine.data.pos[1] = engine.obs.integrated[1] - 2 * PosUnit
    /\ engine.data.pos[2] = engine.obs.integrated[2]

Abs(x) == IF x < 0 THEN 0 - x ELSE x

\* the largest magnitude of a cell of a one-component Field
MaxAbs(f) == CHOOSE m \in {Abs(f[c]) : c \in DOMAIN f} :
                 \A c \in DOMAIN f : Abs(f[c]) <= m

\* the divergence of the current velocity, recomputed with the stencil of
\* the divergence pass
DivergenceNow ==
    [c \in Cells(GridRes) |->
        DivergenceShader(engine.velocityFBO[engine.velIdx], c, GridRes)]

(* C15: for any nonzero velocity field and any solverIterations >= 1,      *)
(* after compute-divergence, the pressure iterations and subtract-gradient *)
(* the divergence of the velocity, recomputed with the same stencil, is    *)
(* smaller in magnitude than the divergence before the projection.         *)
C15_DivergenceReduced ==
    engine.obs.op = "subtract-gradient"
      => MaxAbs(DivergenceNow) < MaxAbs(engine.divergenceFBO)

\* the DoubleBuffers and the field holding the read index of each
DoubleBuffers == {"velocityFBO", "pressureFBO", "dyeFBO", "particleData"}

ReadIndexOf(buf) ==
    CASE buf = "velocityFBO" -> engine.velIdx
      [] buf = "pressureFBO" -> engine.pressIdx
      [] buf = "dyeFBO" -> engine.dyeIdx
      [] buf = "particleData" -> engine.particleReadIdx

\* pass j is the first pass after pass i that writes the buffer buf, or
\* there is none and j is one past the last pass
NextWriteOf(buf, i, j) ==
    /\ j > i
    /\ j <= Len(engine.obs.passes) + 1
    /\ j <= Len(engine.obs.passes) => engine.obs.passes[j].write[1] = buf
    /\ \A k \in (i + 1) .. (j - 1) : engine.obs.passes[k].write[1] # buf

(* C16: in every frame each pass that writes a DoubleBuffer binds the      *)
(* Field at the read index of that buffer as input, writes the other       *)
(* Field, never binds the Field it writes, and leaves the read index on    *)
(* the Field it wrote: every later pass up to the next write of the buffer *)
(* reads that Field, and so does the engine after the last write.          *)
C16_WritesOtherField ==
    FrameRan
      => \A i \in DOMAIN engine.obs.passes :
            LET p == engine.obs.passes[i]
                buf == p.write[1]
                w == p.write[2]
            IN  buf \in DoubleBuffers
                  => /\ <<buf, 1 - w>> \in p.reads
                     /\ p.write \notin p.reads
                     /\ \A j \in (i + 1) .. (Len(engine.obs.passes) + 1) :
                           NextWriteOf(buf, i, j)
                             => /\ \A k \in (i + 1) .. j :
                                      k <= Len(engine.obs.passes)
                                        => \A r \in engine.obs.passes[k].reads :
                                              r[1] = buf => r[2] = w
                                /\ j = Len(engine.obs.passes) + 1
                                     => ReadIndexOf(buf) = w

\* a frame with an explicitly set, odd number of pressure iterations, an
\* even number of frames after the last reconstruction: velocity's read
\* index is back on 0 and pressure's is on 1
C16_Witness ==
    /\ engine.obs.op = "frame"
    /\ engine.obs.rebuilds = 0
    /\ engine.settings.solverIterations \in IterationInputs
    /\ engine.pressIdx = 1
    /\ engine.velIdx = 0
    /\ engine.pointer.isDown

\* the passes of the log ps before pass i that wrote the buffer buf
WritesBefore(ps, i, buf) == {k \in 1 .. (i - 1) : ps[k].write[1] = buf}

\* k is the last of a nonempty set of pass numbers
IsLast(k, ks) == k \in ks /\ \A j \in ks : j <= k

\* the Field written by the last pass called name in the log ps
WrittenBy(ps, name) ==
    LET ks == {k \in DOMAIN ps : ps[k].pass = name}
    IN  ps[CHOOSE k \in ks : IsLast(k, ks)].write

\* the passes called name in the log ps
PassesNamed(ps, name) == {ps[k] : k \in {j \in DOMAIN ps : ps[j].pass = name}}

\* within the frame just run: a pass that reads a buffer written earlier
\* in the frame reads the Field of the latest such write
ReadsLatestInFrame ==
    FrameRan
      => LET ps == engine.obs.passes
         IN  /\ \A i \in DOMAIN ps : \A r \in ps[i].reads :
                   \A k \in WritesBefore(ps, i, r[1]) :
                       IsLast(k, WritesBefore(ps, i, r[1])) => r = ps[k].write
             /\ \A p \in PassesNamed(ps, "compute-divergence")
                           \cup PassesNamed(ps, "subtract-gradient") :
                   WrittenBy(ps, "apply-forces") \in p.reads
             /\ \A p \in PassesNamed(ps, "subtract-gradient") :
                   WrittenBy(ps, "pressure-solve") \in p.reads
             /\ \A p \in PassesNamed(ps, "advect-dye")
                           \cup PassesNamed(ps, "update-particles") :
                   WrittenBy(ps, "subtract-gradient") \in p.reads
             /\ WrittenBy(ps, "subtract-gradient")
                  = <<"velocityFBO", engine.velIdx>>

\* from one handler to a frame that does not reconstruct: a pass that is
\* the first of the frame to touch a buffer reads the Field the buffer's
\* read index named before the frame, and after a frame that Field of
\* velocity is the one subtract-gradient wrote
ReadsLatestAcrossFrames ==
    (engine'.obs.op = "frame" /\ engine'.obs.rebuilds = 0)
      => LET ps == engine'.obs.passes
         IN  /\ \A i \in DOMAIN ps : \A r \in ps[i].reads :
                   WritesBefore(ps, i, r[1]) = {}
                     => r[2] = (IF r[1] = "divergenceFBO" THEN 0
                                ELSE ReadIndexOf(r[1]))
             /\ FrameRan
                  => WrittenBy(engine.obs.passes, "subtract-gradient")
                       \in ps[1].reads
             /\ ps[1].pass = "advect-velocity"

\* a frame that reconstructs does so before its first pass, which then
\* reads the first Field of the new velocity buffer
ReadsFreshAfterRebuild ==
    (engine'.obs.op = "frame" /\ engine'.obs.rebuilds > 0)
      => LET ps == engine'.obs.passes
         IN  /\ ps[1].pass = "advect-velocity"
             /\ ps[1].rebuilds = engine'.obs.rebuilds
             /\ ps[1].reads = {<<"velocityFBO", 0>>}

FirstPressurePass(ps) ==
    LET ks == {k \in DOMAIN ps : ps[k].pass = "pressure-solve"}
    IN  ps[CHOOSE k \in ks : \A j \in ks : k <= j]

\* within the frame just run: N iterations, one after the other, each
\* reading the Field the one before wrote and writing the other Field;
\* the read index ends on the Field the last iteration wrote
SolveRunsAllIterations ==
    FrameRan
      => LET ps == engine.obs.passes
         IN  /\ Cardinality(PressurePasses) = engine.settings.solverIterations
             /\ \A i \in PressurePasses : \A j \in PressurePasses :
                   j - i < engine.settings.solverIterations
             /\ \A i \in PressurePasses :
                   (i + 1) \in PressurePasses
                      => /\ ps[i].write \in ps[i + 1].reads
                         /\ ps[i + 1].write # ps[i].write
             /\ WrittenBy(ps, "pressure-solve")
                  = <<"pressureFBO", engine.pressIdx>>

\* from one handler to the next frame: the first iteration reads the Field
\* the read index named before the frame (index 0 of the new buffer when
\* the frame reconstructs first), after a frame that is the Field the last
\* iteration of that frame wrote, and the index ends N flips later
SolveWarmStarts ==
    engine'.obs.op = "frame"
      => LET ps    == engine'.obs.passes
             n     == engine'.settings.solverIterations
             start == IF engine'.obs.rebuilds = 0 THEN engine.pressIdx ELSE 0
         IN  /\ <<"pressureFBO", start>> \in FirstPressurePass(ps).reads
             /\ engine'.pressIdx = (start + n) % 2
             /\ (FrameRan /\ engine'.obs.rebuilds = 0)
                  => WrittenBy(engine.obs.passes, "pressure-solve")
                       \in FirstPressurePass(ps).reads

\* a handler that is not a frame, does not reconstruct and is not reset
\* leaves the pressure buffer and its read index alone
PressureKeptBetweenFrames ==
    (engine'.obs.op \notin {"frame", "reset"} /\ engine'.obs.rebuilds = 0)
      => /\ engine'.pressureFBO = engine.pressureFBO
         /\ engine'.pressIdx = engine.pressIdx

(* C18: in each frame the pressure solve runs exactly N = solverIterations *)
(* iterations with no early exit; iteration k+1 reads the Field written by *)
(* iteration k; the first iteration of a frame reads the Field written by  *)
(* the last iteration of the previous frame unless a reconstruction or a   *)
(* reset came in between; the pressure read index after the solve is the   *)
(* index before it flipped N times.                                        *)
C18_PressureSolve ==
    /\ []SolveRunsAllIterations
    /\ [][SolveWarmStarts /\ PressureKeptBetweenFrames]_vars

\* a frame that ran an odd number of iterations set by updateSettings, on a
\* pressure buffer that held data before and after
C18_Witness ==
    /\ engine.obs.op = "frame"
    /\ engine.obs.rebuilds = 0
    /\ engine.settings.solverIterations \in IterationInputs
    /\ Cardinality(PressurePasses) \in IterationInputs
    /\ engine.pressureFBO[0].v = "data"
    /\ engine.pressureFBO[1].v = "data"

\* within the frame just run: both pointer passes were given the same
\* uniforms, which name the pointer as it still is after the frame, and
\* every pass ran after the same number of reconstructions
StepSeesOnePointer ==
    FrameRan
      => LET ps == engine.obs.passes
         IN  /\ \A p \in PassesNamed(ps, "apply-forces") :
                \A q \in PassesNamed(ps, "update-dye") :
                   /\ p.uniforms = q.uniforms
                   /\ p.uniforms[1] = engine.pointer.x
                   /\ p.uniforms[2] = engine.pointer.y
                   /\ p.uniforms[5] = engine.pointer.isDown
             /\ PassesNamed(ps, "apply-forces") # {}
             /\ PassesNamed(ps, "update-dye") # {}
             /\ \A i \in DOMAIN ps : ps[i].rebuilds = engine.obs.rebuilds

\* from one handler to the next frame: the pointer passes are given the
\* pointer, the previous pointer and the down flag as the last event
\* handler before the frame left them
StepSnapshotsPointer ==
    engine'.obs.op = "frame"
      => \A p \in PassesNamed(engine'.obs.passes, "apply-forces")
                    \cup PassesNamed(engine'.obs.passes, "update-dye") :
            p.uniforms = PointerUniforms(engine)

(* C19: under any interleaving of mouse, touch and resize events with      *)
(* frames, no event handler takes effect between the start and the end of  *)
(* a step: apply-forces and update-dye of one frame use the same current   *)
(* position, previous position and down flag, and no reconstruction        *)
(* happens between two passes of one frame.                                *)
C19_StepUninterrupted ==
    /\ []StepSeesOnePointer
    /\ [][StepSnapshotsPointer]_vars

\* a frame run while the pointer was down at a position other than the
\* previous one
C19_Witness ==
    /\ engine.obs.op = "frame"
    /\ \E p \in PassesNamed(engine.obs.passes, "update-dye") :
          /\ p.uniforms[5]
          /\ <<p.uniforms[1], p.uniforms[2]>> # <<p.uniforms[3], p.uniforms[4]>>

\* the change the last handler made to the number of live Fields, those
\* allocated and not deleted
LiveFieldsDelta == engine.obs.created - engine.obs.deleted

(* C20: on every reconstruction all Fields of the previous simulation and  *)
(* particle state are destroyed, so the live Fields are exactly the 7      *)
(* simulation Fields and 2 particle Fields in use: the constructor leaves  *)
(* that many live, and every later handler deletes as many Fields as it    *)
(* allocates.                                                              *)
C20_OnlyCurrentFieldsLive ==
    engine.constructed
      => IF engine.obs.op = "constructor"
         THEN LiveFieldsDelta = SimFields + ParticleFields
         ELSE LiveFieldsDelta = 0

\* the grid size of the engine differs from the one derived from the
\* viewport vp and the preset of the stored quality level; with no preset
\* for the stored level _resize throws before it compares anything
GridDiffers(e, vp) ==
    IF HasPreset(e.settings.quality)
    THEN <<DerivedSize(vp[1], e.settings.quality),
           DerivedSize(vp[2], e.settings.quality)>> # <<e.simWidth, e.simHeight>>
    ELSE FALSE

\* the Fields, the read indices, the particle state, the grid size and the
\* settings are the same before and after the step
SimulationUnchanged ==
    /\ engine'.velocityFBO = engine.velocityFBO
    /\ engine'.pressureFBO = engine.pressureFBO
    /\ engine'.divergenceFBO = engine.divergenceFBO
    /\ engine'.dyeFBO = engine.dyeFBO
    /\ engine'.velIdx = engine.velIdx
    /\ engine'.pressIdx = engine.pressIdx
    /\ engine'.dyeIdx = engine.dyeIdx
    /\ engine'.particleData = engine.particleData
    /\ engine'.particleReadIdx = engine.particleReadIdx
    /\ engine'.particleDataSize = engine.particleDataSize
    /\ engine'.particleCount = engine.particleCount
    /\ engine'.simWidth = engine.simWidth
    /\ engine'.simHeight = engine.simHeight
    /\ engine'.settings = engine.settings

\* a resize step: it reconstructs once exactly when the derived grid size
\* differs, and then the grid has the derived size; otherwise it
\* reconstructs nothing and leaves the simulation as it was
ResizeStep ==
    engine'.obs.op = "resize"
      => IF GridDiffers(engine, viewport')
         THEN /\ engine'.obs.rebuilds = 1
              /\ engine'.obs.particleRebuilds = 1
              /\ ~GridDiffers(engine', viewport')
              /\ engine'.settings.quality = engine.settings.quality
         ELSE /\ engine'.obs.rebuilds = 0
              /\ engine'.obs.particleRebuilds = 0
              /\ engine'.obs.seeds = 0
              /\ SimulationUnchanged

(* C21: a viewport resize event reconstructs the simulation if and only if *)
(* the grid width or height derived from the new viewport and the stored   *)
(* quality level's preset differs from the current grid width or height;   *)
(* otherwise it leaves all Fields, all read indices, the particle state    *)
(* and the solver iteration count unchanged.                               *)
C21_ResizeRebuildsIffSizeDiffers == [][ResizeStep]_vars

\* a resize that reconstructed nothing on a simulation that frames have
\* written to: the read indices are not the initial ones, and the
\* iteration count is not the preset's
C21_Witness ==
    /\ engine.obs.op = "resize"
    /\ engine.obs.rebuilds = 0
    /\ ~engine.obs.thrown
    /\ engine.velocityFBO[engine.velIdx] # FreshTexel
    /\ engine.velIdx = 1
    /\ engine.particleReadIdx = 1
    /\ engine.settings.solverIterations \in IterationInputs

====
